---- MODULE Spec2Model ----
(***************************************************************************)
(* Model of the budgeting tool's aggregation engine (src/src/analysis.py)  *)
(* and of the ingestion boundary that feeds it (src/src/data_fetch.py).    *)
(*                                                                         *)
(* A string is a sequence of tokens.  A token is one character, except     *)
(* that the currency marker (written "Kc") and the words used as category, *)
(* month and account names are single tokens (such words hold none of the  *)
(* characters the code looks for).  A float is an integer.  A DataFrame is a record   *)
(* [cols, rows]: the set of its column names and the sequence of its rows, *)
(* each row a function from cols to cells; the position of a row is its    *)
(* index label.                                                            *)
(***************************************************************************)
EXTENDS Integers, Sequences, FiniteSets, TLC

VARIABLES table, table0, call, result

vars == <<table, table0, call, result>>

(***************************************************************************)
(* Outcomes of a call: a returned value or a raised exception.             *)
(***************************************************************************)
Ok(v) == [tag |-> "ok", v |-> v]

Raise(e) == [tag |-> "raise", exc |-> e]

IsOk(r) == r.tag = "ok"

\* try: outcome / except: handler
OrElse(outcome, handler) == IF IsOk(outcome) THEN outcome ELSE handler

(***************************************************************************)
(* Strings.                                                                *)
(***************************************************************************)
Digits == {"0", "1", "2", "3", "4", "5", "6", "7", "8", "9"}

DigitVal == [d \in Digits |->
               CASE d = "0" -> 0 [] d = "1" -> 1 [] d = "2" -> 2 [] d = "3" -> 3
                 [] d = "4" -> 4 [] d = "5" -> 5 [] d = "6" -> 6 [] d = "7" -> 7
                 [] d = "8" -> 8 [] d = "9" -> 9]

\* str.replace(tok, ''): every occurrence of the token removed.
RemoveToken(s, tok) == SelectSeq(s, LAMBDA c : c # tok)

RECURSIVE LStrip(_)
LStrip(s) == IF s # <<>> /\ Head(s) = " " THEN LStrip(Tail(s)) ELSE s

RECURSIVE RStrip(_)
RStrip(s) == IF s # <<>> /\ s[Len(s)] = " " THEN RStrip(SubSeq(s, 1, Len(s) - 1)) ELSE s

\* str.strip()
Strip(s) == LStrip(RStrip(s))

\* tok in s, for a one-token needle
Contains(s, tok) == \E i \in 1..Len(s) : s[i] = tok

RECURSIVE DecimalValue(_)
DecimalValue(s) == IF s = <<>> THEN 0
                   ELSE 10 * DecimalValue(SubSeq(s, 1, Len(s) - 1)) + DigitVal[s[Len(s)]]

AllDigits(s) == s # <<>> /\ \A i \in 1..Len(s) : s[i] \in Digits

\* float(s): surrounding whitespace and one leading sign are accepted, then
\* decimal digits; anything else is a ValueError.
ParseFloat(s) ==
  LET t == Strip(s)
      signed == t # <<>> /\ Head(t) \in {"-", "+"}
      body == IF signed THEN Tail(t) ELSE t
  IN  IF AllDigits(body)
      THEN Ok(IF signed /\ Head(t) = "-" THEN 0 - DecimalValue(body) ELSE DecimalValue(body))
      ELSE Raise("ValueError")

\* The engine's cleaning of one raw monetary string:
\* .str.replace('Kc', '').str.replace(',', '').str.strip().astype(float)
CleanValue(s) == ParseFloat(Strip(RemoveToken(RemoveToken(s, "Kc"), ",")))

(***************************************************************************)
(* Generic helpers.                                                        *)
(***************************************************************************)
RECURSIVE SeqsUpTo(_, _)
SeqsUpTo(S, n) == IF n = 0 THEN {<<>>}
                  ELSE LET shorter == SeqsUpTo(S, n - 1)
                       IN  shorter \cup {Append(q, x) : q \in {p \in shorter : Len(p) = n - 1}, x \in S}

RECURSIVE SumSeq(_)
SumSeq(s) == IF s = <<>> THEN 0 ELSE Head(s) + SumSeq(Tail(s))

Abs(n) == IF n < 0 THEN 0 - n ELSE n

Min(a, b) == IF a < b THEN a ELSE b

Max(a, b) == IF a < b THEN b ELSE a

\* The elements of s in order of first appearance (Series.unique()).
RECURSIVE Unique(_)
Unique(s) == IF s = <<>> THEN <<>>
             ELSE LET init == Unique(SubSeq(s, 1, Len(s) - 1))
                      x == s[Len(s)]
                  IN  IF \E i \in 1..Len(init) : init[i] = x THEN init ELSE Append(init, x)

\* The increasing sequence of the members of a set of row positions.
RECURSIVE Ascending(_)
Ascending(S) == IF S = {} THEN <<>>
                ELSE LET m == CHOOSE x \in S : \A y \in S : x <= y
                     IN  <<m>> \o Ascending(S \ {m})

(***************************************************************************)
(* DataFrames.                                                             *)
(***************************************************************************)
\* A missing value (NaN / None): equal to no string.
Missing == <<"<NA>">>

EmptyString == <<>>

\* pd.DataFrame(): no columns, no rows.
EmptyDataFrame == [cols |-> {}, rows |-> <<>>]

\* The columns holding floats; every other column holds strings.
NumericColumns == {"VALUE_NUMERIC"}

\* The fields get_transactions fills in when the sheet lacks them.
ExpectedFields == {"DATE", "DESCRIPTION", "CATEGORY", "ACCOUNT", "TYPE", "MONTH"}

\* DataFrame.empty: some axis has length 0.
IsEmpty(df) == df.cols = {} \/ df.rows = <<>>

Positions(df) == 1..Len(df.rows)

(***************************************************************************)
(* The ingestion boundary.                                                 *)
(***************************************************************************)
\* The cleaning of the VALUE column at ingestion: strip, '' -> '0', then the
\* currency marker, the commas and every space removed.
IngestValue(s) ==
  LET stripped == Strip(s)
      filled == IF stripped = EmptyString THEN <<"0">> ELSE stripped
  IN  RemoveToken(RemoveToken(RemoveToken(filled, "Kc"), ","), " ")

\* pd.to_numeric(..., errors='coerce').fillna(0.0)
ToNumericCoerce(s) == LET r == ParseFloat(s) IN IF IsOk(r) THEN r.v ELSE 0

\* get_transactions on what the worksheet returned: fetch.ok is FALSE when any
\* step of the fetch raised, fetch.headers is the header row (as a set of
\* column names) and fetch.rows the data rows.
get_transactions(fetch) ==
  IF ~fetch.ok THEN EmptyDataFrame
  ELSE IF fetch.rows = <<>> THEN EmptyDataFrame
  ELSE LET cols == fetch.headers \cup {"VALUE", "VALUE_NUMERIC"} \cup ExpectedFields
           build(r) ==
             [c \in cols |->
                IF c = "VALUE"
                THEN (IF "VALUE" \in fetch.headers THEN IngestValue(r["VALUE"]) ELSE <<"0">>)
                ELSE IF c = "VALUE_NUMERIC"
                THEN (IF "VALUE" \in fetch.headers
                      THEN ToNumericCoerce(IngestValue(r["VALUE"])) ELSE 0)
                ELSE IF c \in fetch.headers THEN r[c] ELSE EmptyString]
       IN  [cols |-> cols, rows |-> [i \in 1..Len(fetch.rows) |-> build(fetch.rows[i])]]

(***************************************************************************)
(* Category classification.                                                *)
(***************************************************************************)
RecognizedTypes == {<<"income">>, <<"expense">>, <<"saving">>, <<"investment">>}

\* The row filters of get_all_categories.
NotSentinel(c) ==
  /\ c # <<"Exclude">>
  /\ c # <<"Starting Balance">>
  /\ c # EmptyString
  /\ c # Missing
  /\ c # <<"None">>

\* lst + [None] * (max_len - len(lst))
pad(lst, max_len) == lst \o [i \in 1..(max_len - Len(lst)) |-> Missing]

\* Mutant of cat_type: .iloc[-1], the TYPE of the last row of the category.
cat_type_last(rows, category) ==
  rows[CHOOSE i \in 1..Len(rows) :
         /\ rows[i]["CATEGORY"] = category
         /\ \A j \in (i + 1)..Len(rows) : rows[j]["CATEGORY"] # category]["TYPE"]

\* df['TYPE'][df['CATEGORY'] == category].iloc[0]: the TYPE of the first row
\* of the category.
cat_type(rows, category) ==
  rows[CHOOSE i \in 1..Len(rows) :
         /\ rows[i]["CATEGORY"] = category
         /\ \A j \in 1..(i - 1) : rows[j]["CATEGORY"] # category]["TYPE"]

\* The loop over unique_categories, seen from one of its four lists: the
\* categories appended to the list of type t, in the order of the loop.
CategoriesOfType(rows, cats, t) == SelectSeq(cats, LAMBDA c : cat_type(rows, c) = t)

get_all_categories(df) ==
  IF "CATEGORY" \notin df.cols THEN Raise("KeyError")
  ELSE LET rows == SelectSeq(df.rows, LAMBDA r : NotSentinel(r["CATEGORY"]))
           unique_categories == Unique([i \in 1..Len(rows) |-> rows[i]["CATEGORY"]])
       IN  IF unique_categories # <<>> /\ "TYPE" \notin df.cols THEN Raise("KeyError")
           ELSE LET income_categories == CategoriesOfType(rows, unique_categories, <<"income">>)
                    expense_categories == CategoriesOfType(rows, unique_categories, <<"expense">>)
                    saving_categories == CategoriesOfType(rows, unique_categories, <<"saving">>)
                    investing_categories ==
                      CategoriesOfType(rows, unique_categories, <<"investment">>)
                    max_len == Max(Max(Len(income_categories), Len(expense_categories)),
                                   Max(Len(saving_categories), Len(investing_categories)))
                IN  Ok([income |-> pad(income_categories, max_len),
                        expense |-> pad(expense_categories, max_len),
                        saving |-> pad(saving_categories, max_len),
                        investment |-> pad(investing_categories, max_len)])

(***************************************************************************)
(* Criteria-based summation.                                               *)
(*                                                                         *)
(* A criteria mapping (the keyword arguments) is a function from keys to   *)
(* criterion values; a key bound to Absent is a key the caller did not     *)
(* pass.  A criterion value is a list of strings or a string.              *)
(***************************************************************************)
Absent == [kind |-> "absent"]

List(items) == [kind |-> "list", items |-> items]

Str(s) == [kind |-> "str", s |-> s]

HasKey(criteria, k) == k \in DOMAIN criteria /\ criteria[k].kind # "absent"

\* The comparison operators df.query understands, longest first.
CompareOps == <<<<">", "=">>, <<"<", "=">>, <<"=", "=">>, <<"!", "=">>, <<">">>, <<"<">>>>

StartsWith(s, prefix) == Len(s) >= Len(prefix) /\ SubSeq(s, 1, Len(prefix)) = prefix

\* value in s, for a needle of one or two tokens
ContainsSeq(s, needle) ==
  \E i \in 1..(Len(s) - Len(needle) + 1) : SubSeq(s, i, i + Len(needle) - 1) = needle

\* any(op in value for op in ['>', '<', '>=', '<=', '==', '!='])
HasOperator(value) == \E k \in 1..Len(CompareOps) : ContainsSeq(value, CompareOps[k])

\* The pieces of the parse below.
ComparisonWith(op, num) ==
  IF IsOk(num) THEN Ok([op |-> op, threshold |-> num.v]) ELSE Raise("SyntaxError")

ComparisonAt(t, k) ==
  ComparisonWith(CompareOps[k],
                 ParseFloat(Strip(SubSeq(t, Len(CompareOps[k]) + 1, Len(t)))))

FirstOperator(t) ==
  LET ks == {k \in 1..Len(CompareOps) : StartsWith(t, CompareOps[k])}
  IN  IF ks = {} THEN 0 ELSE CHOOSE x \in ks : \A y \in ks : x <= y

ParseComparisonAt(t, k) == IF k = 0 THEN Raise("SyntaxError") ELSE ComparisonAt(t, k)

\* The parse of f"{column} {expr}" by DataFrame.query: a comparison operator
\* followed by one number is the comparison of the column with the number;
\* every other text of the inputs used here is an error (a syntax error, an
\* undefined name, an assignment, an operator query does not implement).
ParseComparison(expr) == ParseComparisonAt(Strip(expr), FirstOperator(Strip(expr)))

Compare(x, op, y) ==
  CASE op = <<">">> -> x > y
    [] op = <<"<">> -> x < y
    [] op = <<">", "=">> -> x >= y
    [] op = <<"<", "=">> -> x <= y
    [] op = <<"=", "=">> -> x = y
    [] op = <<"!", "=">> -> x # y

\* filtered_df.query(f"{key} {expr}") on the rows `keep` when the column is a
\* column of floats (nums[i] is the float of row i): the rows kept, or the
\* exception raised.
NumericQuery(keep, nums, p) ==
  IF IsOk(p) THEN Ok({i \in keep : Compare(nums[i], p.v.op, p.v.threshold)})
  ELSE p

QueryNumeric(keep, nums, expr) == NumericQuery(keep, nums, ParseComparison(expr))

\* The same on a column of strings: a string equals no number, and an order
\* comparison of a string with a number is a TypeError (on a frame with rows).
StringQuery(keep, p) ==
  IF ~IsOk(p) THEN p
  ELSE IF p.v.op = <<"=", "=">> THEN Ok({})
  ELSE IF p.v.op = <<"!", "=">> THEN Ok(keep)
  ELSE IF keep = {} THEN Ok({})
  ELSE Raise("TypeError")

QueryString(keep, expr) == StringQuery(keep, ParseComparison(expr))

\* Lines 103-108: the value column as floats, or the ValueError of astype(float).
\* A column of floats survives astype(str).astype(float) unchanged.
ConvertColumn(df, column) ==
  LET conv(i) == IF column \in NumericColumns THEN Ok(df.rows[i][column])
                 ELSE CleanValue(df.rows[i][column])
  IN  IF \E i \in Positions(df) : ~IsOk(conv(i)) THEN Raise("ValueError")
      ELSE Ok([i \in Positions(df) |-> conv(i).v])

\* Lines 111-122: the rows kept by VALUE_CONDITION, or the exception that
\* leaves the handler.
\* Lines 117-121: the rows beyond the hand-parsed threshold, or the
\* ValueError of float().
ThresholdRows(keep, nums, op, threshold) ==
  IF IsOk(threshold) THEN Ok({i \in keep : Compare(nums[i], op, threshold.v)})
  ELSE threshold

ApplyValueCondition(keep, nums, value_condition) ==
  OrElse(QueryNumeric(keep, nums, value_condition),
         IF Contains(value_condition, ">")
         THEN ThresholdRows(keep, nums, <<">">>,
                            ParseFloat(Strip(RemoveToken(value_condition, ">"))))
         ELSE IF Contains(value_condition, "<")
         THEN ThresholdRows(keep, nums, <<"<">>,
                            ParseFloat(Strip(RemoveToken(value_condition, "<"))))
         ELSE Ok(keep))

\* Lines 126-137: one pass of the loop over the remaining criteria.
ApplyCriterion(df, column, keep, nums, key, value) ==
  LET numeric == key = column \/ key \in NumericColumns
  IN  IF key \notin df.cols THEN keep
      ELSE IF value.kind = "list"
      THEN (IF numeric THEN {}
            ELSE {i \in keep : \E j \in 1..Len(value.items) : df.rows[i][key] = value.items[j]})
      ELSE IF HasOperator(value.s)
      THEN OrElse(IF numeric THEN QueryNumeric(keep, nums, value.s)
                  ELSE QueryString(keep, value.s),
                  Ok(keep)).v
      ELSE IF numeric THEN {}
      ELSE {i \in keep : df.rows[i][key] = value.s}

\* The keys of a criteria mapping other than VALUE_CONDITION, in the order the
\* loop visits them.
CriteriaKeys == <<"CATEGORY", "MONTH", "ACCOUNT", "VALUE", "NOTE">>

RECURSIVE ApplyCriteria(_, _, _, _, _, _)
ApplyCriteria(df, column, keep, nums, criteria, k) ==
  IF k > Len(CriteriaKeys) THEN keep
  ELSE LET key == CriteriaKeys[k]
           next == IF HasKey(criteria, key)
                   THEN ApplyCriterion(df, column, keep, nums, key, criteria[key])
                   ELSE keep
       IN  ApplyCriteria(df, column, next, nums, criteria, k + 1)

\* filtered_df[value_column_header].sum() over the rows kept
SumAt(nums, order) == SumSeq([n \in 1..Len(order) |-> nums[order[n]]])

\* Lines 124-139: the criteria loop and the sum, once VALUE_CONDITION has
\* been applied (or has raised).
SumFiltered(transactions, value_column_header, criteria, nums, afterCondition) ==
  IF ~IsOk(afterCondition) THEN afterCondition
  ELSE Ok(SumAt(nums, Ascending(ApplyCriteria(transactions, value_column_header,
                                              afterCondition.v, nums, criteria, 1))))

\* Lines 110-139: the function after the conversion of the value column (or
\* its ValueError).
SumConverted(transactions, value_column_header, criteria, conv) ==
  IF ~IsOk(conv) THEN conv
  ELSE SumFiltered(transactions, value_column_header, criteria, conv.v,
                   IF HasKey(criteria, "VALUE_CONDITION")
                   THEN ApplyValueCondition(Positions(transactions), conv.v,
                                            criteria["VALUE_CONDITION"].s)
                   ELSE Ok(Positions(transactions)))

sum_values_by_criteria(transactions, value_column_header, criteria) ==
  IF IsEmpty(transactions) THEN Ok(0)
  ELSE IF value_column_header \notin transactions.cols THEN Ok(0)
  ELSE SumConverted(transactions, value_column_header, criteria,
                    ConvertColumn(transactions, value_column_header))

(***************************************************************************)
(* Top transactions.                                                       *)
(***************************************************************************)
\* The number of rows nlargest is asked for (line 168).
TopCount == 5

\* DataFrame.nlargest(n, column), keep='first': the n positions of `keep` with
\* the largest floats, largest first, the earlier row first among equal floats.
RECURSIVE nlargest(_, _, _)
nlargest(n, keep, nums) ==
  IF n = 0 \/ keep = {} THEN <<>>
  ELSE LET best == CHOOSE i \in keep :
                     \A j \in keep : nums[j] < nums[i] \/ (nums[j] = nums[i] /\ i <= j)
       IN  <<best>> \o nlargest(n - 1, keep \ {best}, nums)

\* The result is a frame of rows of the table: `index` holds their positions
\* in the table, in the order of the result.
top_5_highest_transactions(transactions, category, month) ==
  IF category # EmptyString /\ "CATEGORY" \notin transactions.cols THEN Raise("KeyError")
  ELSE IF month # EmptyString /\ "MONTH" \notin transactions.cols THEN Raise("KeyError")
  ELSE IF "VALUE" \notin transactions.cols THEN Raise("KeyError")
  ELSE LET rows == transactions.rows
           keep == {i \in Positions(transactions) :
                      /\ category # EmptyString => rows[i]["CATEGORY"] = category
                      /\ month # EmptyString => rows[i]["MONTH"] = month}
           conv == [i \in keep |-> CleanValue(rows[i]["VALUE"])]
       IN  IF \E i \in keep : ~IsOk(conv[i]) THEN Raise("ValueError")
           ELSE Ok([cols |-> transactions.cols \ {"VALUE_NUMERIC"},
                    index |-> nlargest(TopCount, keep, [i \in keep |-> conv[i].v])])

(***************************************************************************)
(* Expenses by category.                                                   *)
(***************************************************************************)
InList(x, lst) == \E j \in 1..Len(lst) : lst[j] = x

\* The mapping returned when no expense is found (line 213).
NoExpenses == [k \in {<<"No Expenses">>} |-> 0]

\* `month` is a string or Missing (None); both '' and None mean no filter.
sum_expenses_by_category(df, expense_cats, month) ==
  IF "VALUE" \notin df.cols THEN Raise("KeyError")
  ELSE LET conv == ConvertColumn(df, "VALUE")
           monthGiven == month # EmptyString /\ month # Missing
       IN  IF ~IsOk(conv) THEN conv
           ELSE IF monthGiven /\ "MONTH" \notin df.cols THEN Raise("KeyError")
           ELSE IF "CATEGORY" \notin df.cols THEN Raise("KeyError")
           ELSE LET nums == conv.v
                    keep == {i \in Positions(df) :
                               /\ monthGiven => df.rows[i]["MONTH"] = month
                               /\ InList(df.rows[i]["CATEGORY"], expense_cats)
                               /\ nums[i] < 0}
                    groups == {df.rows[i]["CATEGORY"] : i \in keep} \ {Missing}
                    total(c) ==
                      LET order == Ascending({i \in keep : df.rows[i]["CATEGORY"] = c})
                      IN  Abs(SumSeq([n \in 1..Len(order) |-> nums[order[n]]]))
                    expenses_dict == [c \in {g \in groups : total(g) > 0} |-> total(c)]
                IN  Ok(IF DOMAIN expenses_dict # {} THEN expenses_dict ELSE NoExpenses)

(***************************************************************************)
(* Derived metrics.                                                        *)
(***************************************************************************)
\* The keyword arguments CATEGORY=categories and, when a month is given,
\* MONTH=month.
MetricCriteria(categories, month) ==
  [k \in {"CATEGORY", "MONTH"} |->
     IF k = "CATEGORY" THEN List(categories)
     ELSE IF month # EmptyString THEN Str(month) ELSE Absent]

\* total_income + total_expenses, unless the computation of one of them
\* raised (that of total_income comes first).
AddTotals(total_income, total_expenses) ==
  IF ~IsOk(total_income) THEN total_income
  ELSE IF ~IsOk(total_expenses) THEN total_expenses
  ELSE Ok(total_income.v + total_expenses.v)

compute_cashflow(transactions, income_categories, expense_categories, saving_categories, investing_categories, month) ==
  AddTotals(
    sum_values_by_criteria(transactions, "VALUE", MetricCriteria(income_categories, month)),
    sum_values_by_criteria(transactions, "VALUE",
      MetricCriteria(expense_categories \o saving_categories \o investing_categories, month)))

compute_profit(transactions, income_categories, expense_categories, month) ==
  AddTotals(
    sum_values_by_criteria(transactions, "VALUE", MetricCriteria(income_categories, month)),
    sum_values_by_criteria(transactions, "VALUE", MetricCriteria(expense_categories, month)))

\* float('inf')
Infinity == [kind |-> "inf"]

\* The quotient num / den of two floats, kept as the pair.
Quotient(num, den) == [kind |-> "quotient", num |-> num, den |-> den]

\* Lines 281-284: abs(total_expenses) / total_income, inf when the income
\* is zero.
RatioOfTotals(total_income, total_expenses) ==
  IF ~IsOk(total_income) THEN total_income
  ELSE IF ~IsOk(total_expenses) THEN total_expenses
  ELSE IF total_income.v = 0 THEN Ok(Infinity)
  ELSE Ok(Quotient(Abs(total_expenses.v), total_income.v))

calculate_expense_ratio(transactions, income_categories, expense_categories, month) ==
  RatioOfTotals(
    sum_values_by_criteria(transactions, "VALUE", MetricCriteria(income_categories, month)),
    sum_values_by_criteria(transactions, "VALUE", MetricCriteria(expense_categories, month)))

(***************************************************************************)
(* Account totals: the one operation that writes to the caller's table.    *)
(***************************************************************************)
\* The table with VALUE_NUMERIC set to nums (the column is added if absent).
WithNumeric(df, nums) ==
  LET cols == df.cols \cup {"VALUE_NUMERIC"}
  IN  [cols |-> cols,
       rows |-> [i \in Positions(df) |->
                   [c \in cols |-> IF c = "VALUE_NUMERIC" THEN nums[i] ELSE df.rows[i][c]]]]

\* Mutant of sum_amount_in_each_account: the cleaned strings are written back
\* to the VALUE column of the caller's table.
sum_amount_cleaning_in_place(transactions) ==
  IF "VALUE" \notin transactions.cols
  THEN [table |-> transactions, result |-> Raise("KeyError")]
  ELSE LET cleaned == [cols |-> transactions.cols,
                       rows |-> [i \in Positions(transactions) |->
                                   [c \in transactions.cols |->
                                      IF c = "VALUE"
                                      THEN Strip(RemoveToken(RemoveToken(
                                             transactions.rows[i][c], "Kc"), ","))
                                      ELSE transactions.rows[i][c]]]]
           conv == ConvertColumn(cleaned, "VALUE")
       IN  IF ~IsOk(conv) THEN [table |-> cleaned, result |-> conv]
           ELSE [table |-> WithNumeric(cleaned, conv.v),
                 result |-> Ok([a \in {cleaned.rows[i]["ACCOUNT"] : i \in Positions(cleaned)} |->
                                  SumSeq([i \in Positions(cleaned) |->
                                            IF cleaned.rows[i]["ACCOUNT"] = a
                                            THEN conv.v[i] ELSE 0])])]

\* Returns the table as the call leaves it and the outcome of the call.  The
\* VALUE column holds strings, so astype(str) (line 297) leaves it as it is.
sum_amount_in_each_account(transactions) ==
  IF "VALUE" \notin transactions.cols
  THEN [table |-> transactions, result |-> Raise("KeyError")]
  ELSE LET conv == ConvertColumn(transactions, "VALUE")
       IN  IF ~IsOk(conv) THEN [table |-> transactions, result |-> conv]
           ELSE LET enriched == WithNumeric(transactions, conv.v)
                    accounts == {enriched.rows[i]["ACCOUNT"] : i \in Positions(enriched)}
                                  \ {Missing}
                    total(a) ==
                      LET order == Ascending({i \in Positions(enriched) :
                                                enriched.rows[i]["ACCOUNT"] = a})
                      IN  SumSeq([n \in 1..Len(order) |-> conv.v[order[n]]])
                IN  IF "ACCOUNT" \notin enriched.cols
                    THEN [table |-> enriched, result |-> Raise("KeyError")]
                    ELSE [table |-> enriched,
                          result |-> Ok([a \in accounts |-> total(a)])]

(***************************************************************************)
(* The tables the engine is called with: the frames get_transactions       *)
(* builds from a worksheet, and hand-built frames with the worksheet's     *)
(* columns and raw values.                                                 *)
(***************************************************************************)
SheetHeaders == {"CATEGORY", "TYPE", "MONTH", "ACCOUNT", "VALUE"}

Row(category, type, month, account, value) ==
  [c \in SheetHeaders |->
     CASE c = "CATEGORY" -> category
       [] c = "TYPE" -> type
       [] c = "MONTH" -> month
       [] c = "ACCOUNT" -> account
       [] c = "VALUE" -> value]

Fetched(rows) == [ok |-> TRUE, headers |-> SheetHeaders, rows |-> rows]

HandBuilt(rows) == [cols |-> SheetHeaders, rows |-> rows]

TablesOver(rowSet, maxRows) ==
  LET contents == SeqsUpTo(rowSet, maxRows)
  IN  {HandBuilt(rs) : rs \in contents} \cup {get_transactions(Fetched(rs)) : rs \in contents}

\* Raw monetary strings.
V1000 == <<"1", "0", "0", "0">>

VMinus400 == <<"-", "4", "0", "0">>

VMinus200 == <<"-", "2", "0", "0">>

VFormatted == <<"1", ",", "2", "3", "4", " ", "Kc">>

VLetters == <<"a", "b", "c">>

(***************************************************************************)
(* The state machine: a caller holds a table and calls the engine.  `call` *)
(* is the last call made and `result` its outcome; table0 is the table as  *)
(* the caller first held it.                                               *)
(***************************************************************************)
NoCall == [op |-> "none"]

InitWith(tables) ==
  /\ table \in tables
  /\ table0 = table
  /\ call = NoCall
  /\ result = Ok(0)

GetAllCategories ==
  /\ call' = [op |-> "get_all_categories"]
  /\ result' = get_all_categories(table)
  /\ UNCHANGED <<table, table0>>

SumValuesByCriteria(value_column_header, criteria) ==
  /\ call' = [op |-> "sum_values_by_criteria",
              value_column_header |-> value_column_header, criteria |-> criteria]
  /\ result' = sum_values_by_criteria(table, value_column_header, criteria)
  /\ UNCHANGED <<table, table0>>

Top5HighestTransactions(category, month) ==
  /\ call' = [op |-> "top_5_highest_transactions", category |-> category, month |-> month]
  /\ result' = top_5_highest_transactions(table, category, month)
  /\ UNCHANGED <<table, table0>>

SumExpensesByCategory(expense_cats, month) ==
  /\ call' = [op |-> "sum_expenses_by_category", expense_cats |-> expense_cats,
              month |-> month]
  /\ result' = sum_expenses_by_category(table, expense_cats, month)
  /\ UNCHANGED <<table, table0>>

ComputeCashflow(income, expense, saving, investing, month) ==
  /\ call' = [op |-> "compute_cashflow", income |-> income, expense |-> expense,
              saving |-> saving, investing |-> investing, month |-> month]
  /\ result' = compute_cashflow(table, income, expense, saving, investing, month)
  /\ UNCHANGED <<table, table0>>

ComputeProfit(income, expense, month) ==
  /\ call' = [op |-> "compute_profit", income |-> income, expense |-> expense,
              month |-> month]
  /\ result' = compute_profit(table, income, expense, month)
  /\ UNCHANGED <<table, table0>>

CalculateExpenseRatio(income, expense, month) ==
  /\ call' = [op |-> "calculate_expense_ratio", income |-> income, expense |-> expense,
              month |-> month]
  /\ result' = calculate_expense_ratio(table, income, expense, month)
  /\ UNCHANGED <<table, table0>>

\* `repeated` records that the call before this one was the same call.
SumAmountInEachAccount ==
  /\ call' = [op |-> "sum_amount_in_each_account",
              repeated |-> (call.op = "sum_amount_in_each_account")]
  /\ table' = sum_amount_in_each_account(table).table
  /\ result' = sum_amount_in_each_account(table).result
  /\ UNCHANGED table0

\* The caller fetches the worksheet and holds the frame get_transactions returns.
GetTransactions(fetch) ==
  /\ call' = [op |-> "get_transactions", fetch |-> fetch]
  /\ table' = get_transactions(fetch)
  /\ table0' = table'
  /\ result' = Ok(table')

(***************************************************************************)
(* Classification: tables over every sentinel category and every type.     *)
(***************************************************************************)
MaxCatRows == 2

CatCategories == {<<"Salary">>, <<"Rent">>, <<"Exclude">>, <<"Starting Balance">>, EmptyString, <<"None">>, Missing}

CatTypes == RecognizedTypes \cup {<<"transfer">>}

CatRows == {Row(c, t, <<"Jan">>, <<"Cash">>, V1000) : c \in CatCategories, t \in CatTypes}

InitCat == InitWith(TablesOver(CatRows, MaxCatRows))

\* One application of the function to each table.
NextCat == call = NoCall /\ GetAllCategories

SpecCat == InitCat /\ [][NextCat]_vars

Elems(lst) == {lst[i] : i \in 1..Len(lst)}

ListNames == {"income", "expense", "saving", "investment"}

SentinelCategories == {<<"Exclude">>, <<"Starting Balance">>, EmptyString, <<"None">>, Missing}

\* The categories of the table that are no sentinel.
RealCategories(df) == {df.rows[i]["CATEGORY"] : i \in Positions(df)} \ SentinelCategories

\* The TYPE of the first row of the table that has the category.
FirstRowType(df, c) ==
  LET first == CHOOSE i \in Positions(df) :
                 /\ df.rows[i]["CATEGORY"] = c
                 /\ \A j \in Positions(df) : df.rows[j]["CATEGORY"] = c => i <= j
  IN  df.rows[first]["TYPE"]

\* The entries of a returned column before its padding of missing values.
Unpadded(lst) == SelectSeq(lst, LAMBDA x : x # Missing)

\* C3: on a table with the CATEGORY and TYPE columns, get_all_categories
\* returns four lists in which every category of the table that is no
\* sentinel stands in exactly the list named by the TYPE of its first row and
\* in none when that TYPE is none of the four; each list holds such categories
\* only, once each, followed by nothing but padding; the lists are pairwise
\* disjoint and no sentinel category stands in any, whatever its TYPE.
C3_Classification ==
  (call.op = "get_all_categories" /\ {"CATEGORY", "TYPE"} \subseteq table.cols) =>
    /\ IsOk(result)
    /\ \A c \in RealCategories(table) : \A t \in ListNames :
         c \in Elems(result.v[t]) <=> FirstRowType(table, c) = <<t>>
    /\ \A t \in ListNames :
         LET lst == result.v[t]
             own == Unpadded(lst)
         IN  /\ Elems(own) \subseteq RealCategories(table)
             /\ Cardinality(Elems(own)) = Len(own)
             /\ lst = own \o [i \in 1..(Len(lst) - Len(own)) |-> Missing]
             /\ Elems(own) \cap (SentinelCategories \ {Missing}) = {}
    /\ \A t \in ListNames : \A u \in ListNames \ {t} :
         Elems(Unpadded(result.v[t])) \cap Elems(Unpadded(result.v[u])) = {}

\* A category whose two rows differ in TYPE was classified by its first row.
C3_Witness ==
  /\ call.op = "get_all_categories"
  /\ IsOk(result)
  /\ \E i \in Positions(table) : \E j \in Positions(table) :
       /\ i < j
       /\ table.rows[i]["CATEGORY"] = table.rows[j]["CATEGORY"]
       /\ table.rows[i]["CATEGORY"] = <<"Salary">>
       /\ table.rows[i]["TYPE"] = <<"income">>
       /\ table.rows[j]["TYPE"] = <<"expense">>
       /\ result.v["income"] = <<<<"Salary">>>>
       /\ result.v["expense"] = <<Missing>>

\* A sentinel category with a recognized TYPE stands next to a classified one
\* and is left out.
C3_WitnessSentinel ==
  /\ call.op = "get_all_categories"
  /\ IsOk(result)
  /\ \E i \in Positions(table) : \E j \in Positions(table) :
       /\ table.rows[i]["CATEGORY"] = <<"Starting Balance">>
       /\ table.rows[i]["TYPE"] = <<"income">>
       /\ table.rows[j]["CATEGORY"] = <<"Rent">>
       /\ table.rows[j]["TYPE"] = <<"expense">>
       /\ result.v["expense"] = <<<<"Rent">>>>
       /\ result.v["income"] = <<Missing>>

(***************************************************************************)
(* Summation by list and scalar criteria.                                  *)
(***************************************************************************)
MaxSumRows == 2

SumValues == {V1000, VMinus400, VFormatted, EmptyString, VLetters}

SumRows == {Row(c, <<"income">>, m, <<"Cash">>, v) : c \in {<<"Salary">>, <<"Rent">>}, m \in {<<"Jan">>, <<"Feb">>}, v \in SumValues}

\* The value columns asked for: the raw one, the numeric one, one no table has.
SumColumns == {"VALUE", "VALUE_NUMERIC", "AMOUNT"}

\* NOTE is a key that is no column of any table.
SumCriteria ==
  {[k \in {"CATEGORY", "MONTH", "NOTE"} |->
      CASE k = "CATEGORY" -> c [] k = "MONTH" -> m [] k = "NOTE" -> n] :
     c \in {Absent, List(<<>>), List(<<<<"Salary">>>>), List(<<<<"Salary">>, <<"Rent">>>>), Str(<<"Rent">>)},
     m \in {Absent, Str(<<"Jan">>), List(<<<<"Feb">>>>)},
     n \in {Absent, Str(<<"x">>)}}

InitSum == InitWith(TablesOver(SumRows, MaxSumRows))

\* One application of the function to each table and each argument list.
NextSum == call = NoCall /\ \E column \in SumColumns, criteria \in SumCriteria : SumValuesByCriteria(column, criteria)

SpecSum == InitSum /\ [][NextSum]_vars

\* The number a cell of a value column stands for under the stated policy: the
\* float of the cleaned string, 0.0 when there is none.
PolicyValue(df, i, column) ==
  IF column \in NumericColumns THEN df.rows[i][column]
  ELSE LET r == CleanValue(df.rows[i][column]) IN IF IsOk(r) THEN r.v ELSE 0

\* Row i satisfies every criterion of the mapping whose key is a column.
Satisfies(df, i, criteria) ==
  \A k \in DOMAIN criteria :
    (HasKey(criteria, k) /\ k \in df.cols) =>
      IF criteria[k].kind = "list" THEN df.rows[i][k] \in Elems(criteria[k].items)
      ELSE df.rows[i][k] = criteria[k].s

SumOver(df, column, keep) ==
  LET order == Ascending(keep)
  IN  SumSeq([n \in 1..Len(order) |-> PolicyValue(df, order[n], column)])

\* The sum the contract of sum_values_by_criteria describes.
ExpectedSum(df, column, criteria) ==
  IF IsEmpty(df) \/ column \notin df.cols THEN 0
  ELSE SumOver(df, column, {i \in Positions(df) : Satisfies(df, i, criteria)})

\* Every cell of the column cleans to a float.
ColumnParses(df, column) ==
  column \in df.cols => IsOk(ConvertColumn(df, column))

\* C1: sum_values_by_criteria returns the sum of the numeric value column over
\* exactly the rows that satisfy every criterion (list = membership, scalar =
\* equality, a key that is no column restricts nothing), and 0.0 on an empty
\* table, an absent value column or no matching row.
C1_SumByCriteria ==
  call.op = "sum_values_by_criteria" =>
    result = Ok(ExpectedSum(table, call.value_column_header, call.criteria))

\* The same on the tables whose value column cleans to floats throughout.
C1_SumByCriteriaWhereValuesParse ==
  (call.op = "sum_values_by_criteria" /\ ColumnParses(table, call.value_column_header)) =>
    result = Ok(ExpectedSum(table, call.value_column_header, call.criteria))

\* Two criteria and a key that is no column: only the matching row is summed.
C1_WitnessParsed ==
  /\ call.op = "sum_values_by_criteria"
  /\ call.value_column_header = "VALUE"
  /\ call.criteria["CATEGORY"] = List(<<<<"Salary">>, <<"Rent">>>>)
  /\ call.criteria["MONTH"] = Str(<<"Jan">>)
  /\ call.criteria["NOTE"] = Str(<<"x">>)
  /\ Len(table.rows) = 2
  /\ table.rows[1]["MONTH"] = <<"Jan">> /\ table.rows[1]["VALUE"] = VFormatted
  /\ table.rows[2]["MONTH"] = <<"Feb">> /\ table.rows[2]["VALUE"] = VMinus400
  /\ result = Ok(1234)

(***************************************************************************)
(* Monetary values: every operation that turns the raw VALUE strings into  *)
(* floats, on fetched and on hand-built tables.                            *)
(***************************************************************************)
MaxValueRows == 2

RawValues == {V1000, VMinus400, VFormatted, EmptyString, VLetters, <<"Kc">>}

ValueRows == {Row(<<"Rent">>, <<"expense">>, <<"Jan">>, <<"Cash">>, v) : v \in RawValues}

FailedFetch == [ok |-> FALSE, headers |-> {}, rows |-> <<>>]

ValueFetches == {Fetched(rs) : rs \in SeqsUpTo(ValueRows, MaxValueRows)} \cup {FailedFetch}

NoCriteria == [k \in {"CATEGORY"} |-> Absent]

\* The caller starts with a hand-built table or with none (the empty frame).
InitValue == InitWith({HandBuilt(rs) : rs \in SeqsUpTo(ValueRows, MaxValueRows)} \cup {EmptyDataFrame})

\* The caller without a table fetches one; the caller with a table (fetched or
\* hand-built) makes one call.
NextValue ==
  \/ /\ call = NoCall
     /\ table = EmptyDataFrame
     /\ \E fetch \in ValueFetches : GetTransactions(fetch)
  \/ /\ call.op \in {"none", "get_transactions"}
     /\ \/ SumValuesByCriteria("VALUE", NoCriteria)
        \/ Top5HighestTransactions(EmptyString, EmptyString)
        \/ SumExpensesByCategory(<<<<"Rent">>>>, Missing)
        \/ SumAmountInEachAccount

SpecValue == InitValue /\ [][NextValue]_vars

\* The operations of the engine that turn the raw VALUE strings into floats.
ValueOperations == {"sum_values_by_criteria", "top_5_highest_transactions", "sum_expenses_by_category", "sum_amount_in_each_account"}

\* A raw string that is empty or holds no number.
Malformed(s) == ~IsOk(CleanValue(s))

\* C2: missing or malformed monetary values never raise: get_transactions
\* gives a row whose VALUE is empty or unparsable the number 0.0, and every
\* operation of the engine that turns the raw VALUE strings into floats
\* completes with a result on a table that has the columns it reads (in
\* sum_values_by_criteria: with the sum in which such a row counts 0.0).
C2_MalformedNeverRaises ==
  /\ call.op = "get_transactions" =>
       \A i \in Positions(table) :
         Malformed(call.fetch.rows[i]["VALUE"]) => table.rows[i]["VALUE_NUMERIC"] = 0
  /\ (call.op \in ValueOperations /\ SheetHeaders \subseteq table.cols) =>
       /\ IsOk(result)
       /\ call.op = "sum_values_by_criteria" =>
            result.v = ExpectedSum(table, call.value_column_header, call.criteria)

\* get_transactions coerced a malformed value to 0.0.
C2_WitnessIngestion ==
  /\ call.op = "get_transactions"
  /\ Len(table.rows) = 2
  /\ call.fetch.rows[1]["VALUE"] = VLetters
  /\ call.fetch.rows[2]["VALUE"] = EmptyString
  /\ table.rows[1]["VALUE_NUMERIC"] = 0
  /\ table.rows[2]["VALUE_NUMERIC"] = 0

(***************************************************************************)
(* Derived metrics: cashflow, profit and expense ratio.                    *)
(***************************************************************************)
MaxMetricRows == 3

MetricValues == {V1000, VMinus400, VMinus200, VLetters}

MetricRows == {Row(c, <<"expense">>, m, <<"Cash">>, v) : c \in {<<"Salary">>, <<"Rent">>, <<"Fund">>}, m \in {<<"Jan">>, <<"Feb">>}, v \in MetricValues}

MetricMonths == {EmptyString, <<"Jan">>}

IncomeLists == {<<>>, <<<<"Salary">>>>}

ExpenseLists == {<<<<"Rent">>>>, <<<<"Rent">>, <<"Fund">>>>}

SavingLists == {<<<<"Fund">>>>}

InvestingLists == {<<>>, <<<<"Rent">>>>}

InitMetric == InitWith({HandBuilt(rs) : rs \in SeqsUpTo(MetricRows, MaxMetricRows)})

\* One application of one of the three functions to each table and each
\* argument list.
NextMetric ==
  /\ call = NoCall
  /\ \E income \in IncomeLists, expense \in ExpenseLists, month \in MetricMonths :
       \/ \E saving \in SavingLists, investing \in InvestingLists :
            ComputeCashflow(income, expense, saving, investing, month)
       \/ ComputeProfit(income, expense, month)
       \/ CalculateExpenseRatio(income, expense, month)

SpecMetric == InitMetric /\ [][NextMetric]_vars

MetricOperations == {"compute_cashflow", "compute_profit", "calculate_expense_ratio"}

\* The signed sum of the rows of the month (every row when the month is '')
\* whose category is in the set, each row once.
SignedSum(df, categories, month) ==
  SumOver(df, "VALUE", {i \in Positions(df) :
                          /\ df.rows[i]["CATEGORY"] \in categories
                          /\ month # EmptyString => df.rows[i]["MONTH"] = month})

\* C4: compute_cashflow returns the signed sum of the rows of the income list
\* plus the signed sum of the rows of the union of the expense, saving and
\* investment lists, each row once; compute_profit returns the income sum plus
\* the signed sum of the rows of the expense list only.
C4_CashflowAndProfit ==
  /\ call.op = "compute_cashflow" =>
       result = Ok(SignedSum(table, Elems(call.income), call.month)
                   + SignedSum(table, Elems(call.expense) \cup Elems(call.saving)
                                        \cup Elems(call.investing), call.month))
  /\ call.op = "compute_profit" =>
       result = Ok(SignedSum(table, Elems(call.income), call.month)
                   + SignedSum(table, Elems(call.expense), call.month))

\* The same on the tables whose VALUE column cleans to floats throughout.
C4_CashflowAndProfitWhereValuesParse == ColumnParses(table, "VALUE") => C4_CashflowAndProfit

\* The fixture: income +1000, expense -400, saving -200.
IsFixture(df) ==
  /\ Len(df.rows) = 3
  /\ df.rows[1]["CATEGORY"] = <<"Salary">> /\ df.rows[1]["VALUE"] = V1000
  /\ df.rows[2]["CATEGORY"] = <<"Rent">> /\ df.rows[2]["VALUE"] = VMinus400
  /\ df.rows[3]["CATEGORY"] = <<"Fund">> /\ df.rows[3]["VALUE"] = VMinus200

C4_WitnessCashflow ==
  /\ IsFixture(table)
  /\ call.op = "compute_cashflow"
  /\ call.income = <<<<"Salary">>>> /\ call.expense = <<<<"Rent">>>>
  /\ call.saving = <<<<"Fund">>>> /\ call.investing = <<>>
  /\ call.month = EmptyString
  /\ result = Ok(400)

C4_WitnessProfit ==
  /\ IsFixture(table)
  /\ call.op = "compute_profit"
  /\ call.income = <<<<"Salary">>>> /\ call.expense = <<<<"Rent">>>>
  /\ call.month = EmptyString
  /\ result = Ok(600)

\* C5: calculate_expense_ratio returns the absolute value of the expense sum
\* divided by the income sum, and +infinity, without raising, exactly when the
\* income sum is zero (an empty table and an empty income list included).
C5_ExpenseRatio ==
  call.op = "calculate_expense_ratio" =>
    LET income == SignedSum(table, Elems(call.income), call.month)
        expense == SignedSum(table, Elems(call.expense), call.month)
    IN  /\ IsOk(result)
        /\ result.v = Infinity <=> income = 0
        /\ income # 0 => result.v = Quotient(Abs(expense), income)

\* The same on the tables whose VALUE column cleans to floats throughout.
C5_ExpenseRatioWhereValuesParse == ColumnParses(table, "VALUE") => C5_ExpenseRatio

C5_WitnessRatio ==
  /\ IsFixture(table)
  /\ call.op = "calculate_expense_ratio"
  /\ call.income = <<<<"Salary">>>> /\ call.expense = <<<<"Rent">>>>
  /\ result = Ok(Quotient(400, 1000))

C5_WitnessInfinity ==
  /\ IsFixture(table)
  /\ call.op = "calculate_expense_ratio"
  /\ call.income = <<>>
  /\ result = Ok(Infinity)

\* The rows of the table whose MONTH is the month.
RowsOfMonth(df, month) ==
  [cols |-> df.cols, rows |-> SelectSeq(df.rows, LAMBDA r : r["MONTH"] = month)]

\* The metric of the last call computed on another table with no month given.
MetricWithoutMonth(df) ==
  CASE call.op = "compute_cashflow" ->
         compute_cashflow(df, call.income, call.expense, call.saving, call.investing, EmptyString)
    [] call.op = "compute_profit" ->
         compute_profit(df, call.income, call.expense, EmptyString)
    [] call.op = "calculate_expense_ratio" ->
         calculate_expense_ratio(df, call.income, call.expense, EmptyString)

\* The metric of the last call as its definition gives it from two sums.
MetricOfSums(income, outflow) ==
  CASE call.op = "compute_cashflow" -> income + outflow
    [] call.op = "compute_profit" -> income + outflow
    [] call.op = "calculate_expense_ratio" ->
         IF income = 0 THEN Infinity ELSE Quotient(Abs(outflow), income)

OutflowCategories ==
  IF call.op = "compute_cashflow"
  THEN Elems(call.expense) \cup Elems(call.saving) \cup Elems(call.investing)
  ELSE Elems(call.expense)

\* C9: in the three metrics a non-empty month restricts the income side and
\* the outflow side to exactly the rows whose MONTH equals it (the result is
\* the metric of those rows alone), and an empty month restricts neither
\* side (the result is the metric over all rows of the table).
C9_MonthFilter ==
  call.op \in MetricOperations =>
    /\ call.month # EmptyString =>
         /\ result = MetricWithoutMonth(RowsOfMonth(table, call.month))
         /\ result = Ok(MetricOfSums(SignedSum(RowsOfMonth(table, call.month),
                                               Elems(call.income), EmptyString),
                                     SignedSum(RowsOfMonth(table, call.month),
                                               OutflowCategories, EmptyString)))
    /\ call.month = EmptyString =>
         result = Ok(MetricOfSums(SignedSum(table, Elems(call.income), EmptyString),
                                  SignedSum(table, OutflowCategories, EmptyString)))

\* The same on the tables whose VALUE column cleans to floats throughout.
C9_MonthFilterWhereValuesParse == ColumnParses(table, "VALUE") => C9_MonthFilter

\* A month is given and rows of both sides lie in it and outside it.
C9_WitnessMonth ==
  /\ call.op = "compute_profit"
  /\ call.month = <<"Jan">>
  /\ call.income = <<<<"Salary">>>> /\ call.expense = <<<<"Rent">>>>
  /\ Len(table.rows) = 3
  /\ table.rows[1] = Row(<<"Salary">>, <<"expense">>, <<"Jan">>, <<"Cash">>, V1000)
  /\ table.rows[2] = Row(<<"Rent">>, <<"expense">>, <<"Feb">>, <<"Cash">>, VMinus400)
  /\ table.rows[3] = Row(<<"Rent">>, <<"expense">>, <<"Jan">>, <<"Cash">>, VMinus200)
  /\ result = Ok(800)

(***************************************************************************)
(* Expenses by category.                                                   *)
(***************************************************************************)
MaxExpenseRows == 3

ExpenseRows == {Row(c, <<"expense">>, m, <<"Cash">>, v) : c \in {<<"Rent">>, <<"Food">>, <<"Salary">>}, m \in {<<"Jan">>, <<"Feb">>}, v \in {VMinus400, VMinus200, V1000, VLetters}}

ExpenseCategoryLists == {<<>>, <<<<"Rent">>>>, <<<<"Rent">>, <<"Food">>>>}

\* No month (None), the empty month, a month.
ExpenseMonths == {Missing, EmptyString, <<"Jan">>}

InitExpense == InitWith({HandBuilt(rs) : rs \in SeqsUpTo(ExpenseRows, MaxExpenseRows)})

\* One application of the function to each table and each argument list.
NextExpense ==
  /\ call = NoCall
  /\ \E expense_cats \in ExpenseCategoryLists, month \in ExpenseMonths :
       SumExpensesByCategory(expense_cats, month)

SpecExpense == InitExpense /\ [][NextExpense]_vars

\* The rows of the month (every row when none is given) whose category is in
\* the list and whose value is negative.
Outflows(df, expense_cats, month) ==
  {i \in Positions(df) :
     /\ (month # EmptyString /\ month # Missing) => df.rows[i]["MONTH"] = month
     /\ df.rows[i]["CATEGORY"] \in Elems(expense_cats)
     /\ PolicyValue(df, i, "VALUE") < 0}

\* C6: sum_expenses_by_category returns the mapping {"No Expenses": 0} exactly
\* when no row of the month has a category of the expense list and a negative
\* value, and otherwise a mapping whose keys are all in the expense list and
\* whose values are strictly positive, each the absolute value of the sum of
\* the negative-valued rows of its category (positive-valued rows change none).
C6_ExpensesByCategory ==
  call.op = "sum_expenses_by_category" =>
    LET outflows == Outflows(table, call.expense_cats, call.month)
    IN  /\ IsOk(result)
        /\ result.v = NoExpenses <=> outflows = {}
        /\ outflows # {} =>
             /\ DOMAIN result.v \subseteq Elems(call.expense_cats)
             /\ \A c \in DOMAIN result.v :
                  /\ result.v[c] > 0
                  /\ result.v[c] =
                       Abs(SumOver(table, "VALUE",
                                   {i \in outflows : table.rows[i]["CATEGORY"] = c}))

\* The same on the tables whose VALUE column cleans to floats throughout.
C6_ExpensesByCategoryWhereValuesParse == ColumnParses(table, "VALUE") => C6_ExpensesByCategory

\* Two outflows of one category add up; the positive row of the category and
\* the outflow of the other month change nothing.
C6_WitnessGrouped ==
  /\ call.op = "sum_expenses_by_category"
  /\ call.expense_cats = <<<<"Rent">>, <<"Food">>>>
  /\ call.month = <<"Jan">>
  /\ Len(table.rows) = 3
  /\ table.rows[1] = Row(<<"Rent">>, <<"expense">>, <<"Jan">>, <<"Cash">>, VMinus400)
  /\ table.rows[2] = Row(<<"Rent">>, <<"expense">>, <<"Jan">>, <<"Cash">>, V1000)
  /\ table.rows[3] = Row(<<"Rent">>, <<"expense">>, <<"Jan">>, <<"Cash">>, VMinus200)
  /\ result = Ok([c \in {<<"Rent">>} |-> 600])

C6_WitnessNoExpenses ==
  /\ call.op = "sum_expenses_by_category"
  /\ call.expense_cats = <<<<"Rent">>>>
  /\ Len(table.rows) = 2
  /\ table.rows[1]["CATEGORY"] = <<"Rent">> /\ table.rows[1]["VALUE"] = V1000
  /\ table.rows[2]["CATEGORY"] = <<"Food">> /\ table.rows[2]["VALUE"] = VMinus400
  /\ result = Ok(NoExpenses)

(***************************************************************************)
(* Top transactions.                                                       *)
(***************************************************************************)
MaxTopRows == 6

TopRows == {Row(c, <<"expense">>, <<"Jan">>, <<"Cash">>, v) : c \in {<<"Rent">>, <<"Food">>}, v \in {<<"1">>, <<"2">>, VLetters}}

InitTop == InitWith({HandBuilt(rs) : rs \in SeqsUpTo(TopRows, MaxTopRows)})

\* One application of the function to each table and each argument list.
NextTop ==
  /\ call = NoCall
  /\ \E category \in {EmptyString, <<"Rent">>}, month \in {EmptyString, <<"Jan">>} :
       Top5HighestTransactions(category, month)

SpecTop == InitTop /\ [][NextTop]_vars

\* The rows matching the filters of the call (an empty filter matches all).
Matching(df, category, month) ==
  {i \in Positions(df) :
     /\ category # EmptyString => df.rows[i]["CATEGORY"] = category
     /\ month # EmptyString => df.rows[i]["MONTH"] = month}

\* C7: the top-n query (n = 5, the only n the function offers) returns
\* exactly min(n, k) of the k rows matching the category and month filters:
\* every returned row matches, the rows are in descending order of numeric
\* value, no omitted matching row has a larger value than a returned one, and
\* rows of equal value keep their original table order.
C7_TopTransactions ==
  call.op = "top_5_highest_transactions" =>
    /\ IsOk(result)
    /\ LET matching == Matching(table, call.category, call.month)
           index == result.v.index
           value(i) == PolicyValue(table, i, "VALUE")
       IN  /\ Len(index) = Min(TopCount, Cardinality(matching))
           /\ Elems(index) \subseteq matching
           /\ Cardinality(Elems(index)) = Len(index)
           /\ \A a \in 1..Len(index) : \A b \in 1..Len(index) :
                a < b => /\ value(index[a]) >= value(index[b])
                         /\ value(index[a]) = value(index[b]) => index[a] < index[b]
           /\ \A i \in matching \ Elems(index) : \A a \in 1..Len(index) :
                value(i) <= value(index[a])

\* The same on the tables whose VALUE column cleans to floats throughout.
C7_TopTransactionsWhereValuesParse == ColumnParses(table, "VALUE") => C7_TopTransactions

\* Six matching rows: five are returned, the larger first, equal ones in
\* table order, and a row of the smaller value is left out.
C7_WitnessTruncated ==
  /\ call.op = "top_5_highest_transactions"
  /\ call.category = EmptyString
  /\ Len(table.rows) = 6
  /\ \A i \in {1, 3, 5, 6} : table.rows[i]["VALUE"] = <<"1">>
  /\ \A i \in {2, 4} : table.rows[i]["VALUE"] = <<"2">>
  /\ IsOk(result)
  /\ result.v.index = <<2, 4, 1, 3, 5>>

(***************************************************************************)
(* Comparison expressions in the criteria.  Every VALUE of these tables    *)
(* cleans to a float.                                                      *)
(***************************************************************************)
MaxExprRows == 2

ExprRows == {Row(c, <<"expense">>, <<"Jan">>, <<"Cash">>, v) : c \in {<<"Salary">>, <<"Rent">>}, v \in {<<"2">>, <<"5">>, <<"-", "4">>}}

\* Texts given as comparison expressions: well-formed ones, ones query cannot
\* parse or evaluate with and without '>' or '<', and ones with no operator.
Expressions == {<<">", " ", "3">>, <<"<", "3">>, <<">", "=", " ", "5">>, <<"=", "=", "5">>, <<"!", "=", " ", "5">>, <<">", ">", " ", "3">>, <<"<", "<", "3">>, <<"3", " ", ">">>, <<"<", ">", " ", "3">>, <<"=", ">", " ", "3">>, <<">", " ", "x">>, <<"<", " ", "x">>, <<"=", "3">>, <<"x">>}

ExprCriteria ==
  {[k \in {"VALUE_CONDITION", "CATEGORY", "VALUE"} |->
      CASE k = "VALUE_CONDITION" -> vc [] k = "CATEGORY" -> c [] k = "VALUE" -> v] :
     vc \in {Absent} \cup {Str(e) : e \in Expressions},
     c \in {Absent, List(<<<<"Salary">>>>)} \cup {Str(e) : e \in Expressions},
     v \in {Absent} \cup {Str(e) : e \in Expressions}}

InitExpr == InitWith({HandBuilt(rs) : rs \in SeqsUpTo(ExprRows, MaxExprRows)})

\* One application of the function to each table and each criteria mapping.
NextExpr == call = NoCall /\ \E criteria \in ExprCriteria : SumValuesByCriteria("VALUE", criteria)

SpecExpr == InitExpr /\ [][NextExpr]_vars

\* The criteria with one key removed.
Without(criteria, key) == [k \in DOMAIN criteria |-> IF k = key THEN Absent ELSE criteria[k]]

\* The criteria with the value-condition replaced by another one.
WithCondition(criteria, expr) ==
  [k \in DOMAIN criteria |-> IF k = "VALUE_CONDITION" THEN Str(expr) ELSE criteria[k]]

\* query cannot parse or evaluate the expression given for the key.
Unevaluable(df, key, expr) ==
  IF key \in {"VALUE_CONDITION", "VALUE"} \cup NumericColumns
  THEN ~IsOk(QueryNumeric(Positions(df), [i \in Positions(df) |-> 0], expr))
  ELSE ~IsOk(QueryString(Positions(df), expr))

\* The per-field criteria of the mapping that are comparison expressions.
ExpressionKeys(criteria) ==
  {k \in DOMAIN criteria \ {"VALUE_CONDITION"} :
     HasKey(criteria, k) /\ criteria[k].kind = "str" /\ HasOperator(criteria[k].s)}

\* The threshold of a text with its '>' or '<' removed, as written by hand.
HandThreshold(expr, sign) == RemoveToken(expr, sign)

\* C10: a comparison expression that cannot be parsed or evaluated never
\* fails the query: sum_values_by_criteria returns a sum; a value-condition
\* with '>' (else '<') in it acts as the comparison with its hand-parsed
\* threshold; any other unevaluable value-condition, and any unevaluable
\* per-field expression, is dropped: the sum is the one computed without it.
C10_MalformedExpressions ==
  call.op = "sum_values_by_criteria" =>
    LET criteria == call.criteria
        column == call.value_column_header
        vc == criteria["VALUE_CONDITION"]
    IN  /\ IsOk(result)
        /\ (HasKey(criteria, "VALUE_CONDITION") /\ Unevaluable(table, "VALUE_CONDITION", vc.s)) =>
             IF Contains(vc.s, ">")
             THEN result = sum_values_by_criteria(table, column,
                             WithCondition(criteria, <<">">> \o HandThreshold(vc.s, ">")))
             ELSE IF Contains(vc.s, "<")
             THEN result = sum_values_by_criteria(table, column,
                             WithCondition(criteria, <<"<">> \o HandThreshold(vc.s, "<")))
             ELSE result = sum_values_by_criteria(table, column,
                             Without(criteria, "VALUE_CONDITION"))
        /\ \A k \in ExpressionKeys(criteria) :
             (k \in table.cols /\ Unevaluable(table, k, criteria[k].s)) =>
               result = sum_values_by_criteria(table, column, Without(criteria, k))

\* The same for the queries whose value-condition, if query cannot evaluate it
\* and it holds '>' or '<', leaves a number when the sign is removed.
C10_MalformedExpressionsWhereThresholdParses ==
  (call.op = "sum_values_by_criteria" /\ IsOk(result)) => C10_MalformedExpressions

\* An unevaluable value-condition with '>' was applied by its hand-parsed
\* threshold, and an unevaluable per-field expression was dropped.
C10_WitnessFallback ==
  /\ call.op = "sum_values_by_criteria"
  /\ call.criteria["VALUE_CONDITION"] = Str(<<">", ">", " ", "3">>)
  /\ call.criteria["CATEGORY"] = Str(<<"<", " ", "x">>)
  /\ call.criteria["VALUE"] = Absent
  /\ Len(table.rows) = 2
  /\ table.rows[1]["VALUE"] = <<"5">>
  /\ table.rows[2]["VALUE"] = <<"2">>
  /\ result = Ok(5)

(***************************************************************************)
(* Sequences of calls on one table.                                        *)
(***************************************************************************)
MaxEngineRows == 2

EngineRows == {Row(c[1], c[2], <<"Jan">>, a, v) : c \in {<<<<"Salary">>, <<"income">>>>, <<<<"Rent">>, <<"expense">>>>}, a \in {<<"Cash">>, <<"Bank">>}, v \in {VFormatted, VMinus400, VLetters}}

EngineCriteria == {NoCriteria, [k \in {"CATEGORY"} |-> List(<<<<"Rent">>>>)]}

InitEngine == InitWith(TablesOver(EngineRows, MaxEngineRows))

\* Any call of the engine, any number of times, in any order.
NextEngine ==
  \/ GetAllCategories
  \/ \E column \in {"VALUE", "VALUE_NUMERIC"}, criteria \in EngineCriteria :
       SumValuesByCriteria(column, criteria)
  \/ \E category \in {EmptyString, <<"Rent">>} : Top5HighestTransactions(category, EmptyString)
  \/ SumExpensesByCategory(<<<<"Rent">>>>, Missing)
  \/ \E month \in {EmptyString, <<"Jan">>} :
       ComputeCashflow(<<<<"Salary">>>>, <<<<"Rent">>>>, <<>>, <<>>, month)
  \/ ComputeProfit(<<<<"Salary">>>>, <<<<"Rent">>>>, EmptyString)
  \/ CalculateExpenseRatio(<<<<"Salary">>>>, <<<<"Rent">>>>, EmptyString)
  \/ SumAmountInEachAccount

SpecEngine == InitEngine /\ [][NextEngine]_vars

\* The table has the rows it had and, in every column it had, the values it
\* had; the one column it may have gained is VALUE_NUMERIC, holding the
\* numbers of the VALUE column.
FrameHolds ==
  /\ Len(table.rows) = Len(table0.rows)
  /\ table0.cols \subseteq table.cols
  /\ table.cols \ table0.cols \subseteq {"VALUE_NUMERIC"}
  /\ \A i \in Positions(table0) :
       /\ \A c \in table0.cols : table.rows[i][c] = table0.rows[i][c]
       /\ "VALUE_NUMERIC" \in table.cols =>
            table.rows[i]["VALUE_NUMERIC"] = PolicyValue(table, i, "VALUE")

MaxFetchRows == 2

\* The column names a worksheet's header row is drawn from.
FetchHeaderPool == {"CATEGORY", "MONTH", "VALUE", "NOTE"}

FetchHeaders == SUBSET FetchHeaderPool \ {{}}

\* The cells a column of the worksheet may hold.
FetchCells(c) == IF c = "VALUE" THEN {V1000, VLetters, EmptyString}
                 ELSE {<<"Rent">>, EmptyString}

\* The data rows of a worksheet with the header row hs.
FetchRows(hs) == {r \in [hs -> {V1000, VLetters, <<"Rent">>, EmptyString}] : \A c \in hs : r[c] \in FetchCells(c)}

\* What worksheet.get_all_values() gave: the header row hs with zero or more
\* data rows; or, in Worksheets, an exception somewhere on the way.
WorksheetsWith(hs) == {[ok |-> TRUE, headers |-> hs, rows |-> rs] : rs \in SeqsUpTo(FetchRows(hs), MaxFetchRows)}

Worksheets == UNION {WorksheetsWith(hs) : hs \in FetchHeaders} \cup {FailedFetch}

\* The caller holds no table yet.
InitFetch == InitWith({EmptyDataFrame})

\* One fetch of one worksheet.
NextFetch ==
  /\ call = NoCall
  /\ \E fetch \in Worksheets : GetTransactions(fetch)

SpecFetch == InitFetch /\ [][NextFetch]_vars

\* The columns the engine reads.
RequiredColumns == ExpectedFields \cup {"VALUE", "VALUE_NUMERIC"}

\* The default a column missing from the sheet is filled with.
ColumnDefault(c) == IF c = "VALUE" THEN <<"0">> ELSE IF c = "VALUE_NUMERIC" THEN 0 ELSE EmptyString

\* The table has every required column, and every column the sheet lacked
\* holds its default in every row (VALUE_NUMERIC counts as lacking when the
\* sheet has no VALUE column to derive it from).
HasAllColumns(df, headers) ==
  /\ RequiredColumns \subseteq df.cols
  /\ \A i \in Positions(df) : \A c \in RequiredColumns :
       (c \notin headers /\ (c = "VALUE_NUMERIC" => "VALUE" \notin headers)) =>
         df.rows[i][c] = ColumnDefault(c)

\* C11: every table get_transactions returns, on every return path (data
\* present, sheet with no data rows, fetch error), has the columns DATE,
\* DESCRIPTION, CATEGORY, ACCOUNT, TYPE, MONTH, VALUE and VALUE_NUMERIC, and
\* a column missing from the sheet holds the empty string (0 for the value
\* columns) in every row.
C11_AllColumns ==
  call.op = "get_transactions" => HasAllColumns(table, call.fetch.headers)

\* The same on the one return path where the sheet has data rows; there the
\* table also has one row per data row and keeps the sheet's own columns.
C11_AllColumnsWhereDataPresent ==
  (call.op = "get_transactions" /\ call.fetch.ok /\ call.fetch.rows # <<>>) =>
    /\ HasAllColumns(table, call.fetch.headers)
    /\ call.fetch.headers \subseteq table.cols
    /\ Len(table.rows) = Len(call.fetch.rows)
    /\ \A i \in Positions(table) : \A c \in call.fetch.headers \ {"VALUE"} :
         table.rows[i][c] = call.fetch.rows[i][c]

\* A sheet with data rows but neither a VALUE nor a MONTH column was fetched
\* and the frame holds the defaults.
C11_WitnessFilled ==
  /\ call.op = "get_transactions"
  /\ call.fetch.ok
  /\ call.fetch.headers = {"CATEGORY", "NOTE"}
  /\ Len(table.rows) = 2
  /\ table.rows[1]["VALUE"] = <<"0">>
  /\ table.rows[1]["VALUE_NUMERIC"] = 0
  /\ table.rows[2]["MONTH"] = EmptyString

\* A sheet with a header row and no data rows was fetched.
C11_WitnessHeaderOnly ==
  /\ call.op = "get_transactions"
  /\ call.fetch.ok
  /\ call.fetch.rows = <<>>
  /\ table = EmptyDataFrame

\* The fetch raised.
C11_WitnessFetchError ==
  /\ call.op = "get_transactions"
  /\ ~call.fetch.ok
  /\ table = EmptyDataFrame

====
